---- MODULE Spec2Model ----
(***************************************************************************)
(* Reliability layer of src/server_enhanced.py: RateLimiter,               *)
(* CircuitBreaker and CacheManager, each an instance guarded by its own    *)
(* asyncio.Lock.  The body of every `async with self._lock:` block of      *)
(* these three holds no await, so on the single event loop each method     *)
(* runs from lock acquisition to release without another task in between:  *)
(* one method call is one action, and concurrent tasks are the             *)
(* interleavings of actions.                                               *)
(*                                                                         *)
(* retry_with_backoff, AuthSessionManager and scrape_webpage suspend at    *)
(* their awaits (the operation, the sleeps, session.close()): a task runs  *)
(* them step by step, `pc` holding its position, and other tasks run in    *)
(* between.  AuthSessionManager keeps its lock across `await               *)
(* session.close()`, so its lock is a variable of the model.               *)
(*                                                                         *)
(* Time: datetime.now() and time.time() read the same wall clock, modelled *)
(* as the integer `now`, in whole seconds, which never runs backwards and  *)
(* is advanced by Tick; calls between two ticks read the same time.        *)
(*                                                                         *)
(* `lastCall` records the call that ran last with its arguments and return *)
(* value, so that properties can speak of what a call returned; admitted,  *)
(* wasDenied and failCalls are histories of calls, read by no action.      *)
(***************************************************************************)
EXTENDS Integers, Sequences, FiniteSets, TLC

VARIABLES
    now,                \* the wall clock, in seconds
    ticks,              \* number of clock advances so far (bounded)
    max_requests,       \* RateLimiter.max_requests
    period,             \* RateLimiter.period
    requests,           \* RateLimiter.requests: dict domain -> list of datetimes
    last_cleanup,       \* RateLimiter._last_cleanup
    admitted,           \* history: per domain, the times of the calls that returned True
                        \* less than `period` seconds ago
    wasDenied,          \* history: the domains for which some call returned False
    failure_threshold,  \* CircuitBreaker.failure_threshold
    recovery_timeout,   \* CircuitBreaker.recovery_timeout
    failures,           \* CircuitBreaker.failures: dict endpoint -> int
    last_failure_time,  \* CircuitBreaker.last_failure_time: dict endpoint -> datetime
    failCalls,          \* history: per endpoint, the record_failure calls since its last reset
    ENABLE_CACHE,       \* Config.ENABLE_CACHE
    ttl,                \* CacheManager.ttl, in seconds
    cache,              \* CacheManager.cache: the dict's items (key, value, timestamp)
                        \* in the dict's iteration (insertion) order
    MAX_RETRIES,        \* Config.MAX_RETRIES
    pc,                 \* per task: where the task stands in the function it runs
    retry,              \* per task: the frame of its retry_with_backoff call
    trace,              \* history: per task, the steps its current call has taken, in order
    scrape,             \* per task: the frame of its scrape_webpage call
    _sessions,          \* AuthSessionManager._sessions: dict session_id -> client
    _cookies,           \* AuthSessionManager._cookies: dict session_id -> saved cookies
    clients,            \* every aiohttp.ClientSession the manager created, in order of
                        \* creation: closed flag and cookie jar
    _lock,              \* AuthSessionManager._lock: the task that holds it, or "free"
    auth,               \* per task: the frame of its AuthSessionManager call
    issued,             \* history: per session_id, the client get_or_create_session
                        \* returned last, forgotten when the id is closed
    closedWith,         \* history: per session_id closed by close_session and not
                        \* opened again, the cookies that were saved for it
    lastCall            \* the call that ran last: operation, argument and return value

rlVars == <<max_requests, period, requests, last_cleanup, admitted, wasDenied>>
cbVars == <<failure_threshold, recovery_timeout, failures, last_failure_time, failCalls>>
cacheVars == <<ENABLE_CACHE, ttl, cache>>
taskVars == <<MAX_RETRIES, pc, retry, trace, scrape>>
authVars == <<_sessions, _cookies, clients, _lock, auth, issued, closedWith>>
vars == <<now, ticks, rlVars, cbVars, cacheVars, taskVars, authVars, lastCall>>

----------------------------------------------------------------------------
(* Bounds of the model *)

MaxTicks == 4
MaxMaxRequests == 2
MaxPeriod == 2
MaxThreshold == 2
MaxRecoveryTimeout == 2
MaxFailures == 3
MaxTtl == 2
MaxCacheTicks == 3
MaxRetries == 3
MaxRetryTicks == 3
MaxClients == 3
MaxFetches == 6
MaxScrapeRetries == 2
MaxScrapeTicks == 1
MaxWaitTicks == 2
MaxKeyTicks == 1
MaxCrowdCalls == 1

(* Program constants *)

CleanupInterval == 300
SecondsPerDay == 86400
DefaultMaxRequests == 60
DefaultPeriod == 60
DefaultFailureThreshold == 5
DefaultRecoveryTimeout == 60
DefaultTtl == 300
KeyLimit == 100
CacheSoftCap == 1000
CacheTrimTo == 800
DefaultMaxRetries == 3
BackoffFactor == 2
MaxBackoff == 60

Domains == {"example.com", "other.com"}

NoCall == [op |-> "init"]

----------------------------------------------------------------------------
(* Clock *)

Tick(d, limit) ==
    /\ ticks < limit
    /\ now' = now + d
    /\ ticks' = ticks + 1
    /\ lastCall' = [op |-> "tick"]

----------------------------------------------------------------------------
(* RateLimiter *)

\* a request exactly `period` old still counts
PruneInclusive(times, cutoff) == SelectSeq(times, LAMBDA t : t >= cutoff)

\* [req_time for req_time in times if req_time > cutoff]
Prune(times, cutoff) == SelectSeq(times, LAMBDA t : t > cutoff)

\* the sweep also runs when exactly 300 s have passed
CleanupDueInclusive(current_time, last) == current_time - last >= CleanupInterval

\* current_time - self._last_cleanup > 300
CleanupDue(current_time, last) == current_time - last > CleanupInterval

\* the periodic cleanup: prune every domain, delete the domains left empty
CleanAllDomains(reqs, cutoff) ==
    LET kept == {d \in DOMAIN reqs : Prune(reqs[d], cutoff) # <<>>}
    IN  [d \in kept |-> Prune(reqs[d], cutoff)]

\* if domain not in self.requests: self.requests[domain] = []
EnsureDomain(reqs, domain) ==
    IF domain \in DOMAIN reqs THEN reqs ELSE (domain :> <<>>) @@ reqs

\* one counter shared by the domains: the longest list of any domain
AnyDomainRequests(reqs, domain) ==
    reqs[CHOOSE d \in DOMAIN reqs : \A e \in DOMAIN reqs : Len(reqs[e]) <= Len(reqs[d])]

\* the list the limit is checked against: self.requests[domain]
DomainRequests(reqs, domain) == reqs[domain]

\* one request too many passes
LimitReachedLate(n, limit) == n > limit

\* one request too few passes
LimitReachedEarly(n, limit) == n + 1 >= limit

\* len(self.requests[domain]) >= self.max_requests
LimitReached(n, limit) == n >= limit

\* the request is recorded before the limit is looked at
RecordedAlways(times, t, denied) == Append(times, t)

\* return False without recording, or append now and return True
Recorded(times, t, denied) == IF denied THEN times ELSE Append(times, t)

check_rate_limit(domain) ==
    LET swept   == IF CleanupDue(now, last_cleanup)
                   THEN CleanAllDomains(requests, now - period)
                   ELSE requests
        ensured == EnsureDomain(swept, domain)
        pruned  == [ensured EXCEPT ![domain] = Prune(ensured[domain], now - period)]
        denied  == LimitReached(Len(DomainRequests(pruned, domain)), max_requests)
    IN  /\ requests' = [pruned EXCEPT ![domain] = Recorded(pruned[domain], now, denied)]
        /\ last_cleanup' = IF CleanupDue(now, last_cleanup) THEN now ELSE last_cleanup
        /\ admitted' = IF denied THEN admitted
                       ELSE [admitted EXCEPT ![domain] = Append(@, now)]
        /\ wasDenied' = IF denied THEN wasDenied \cup {domain} ELSE wasDenied
        /\ lastCall' = [op |-> "check_rate_limit", key |-> domain, result |-> ~denied]
        /\ UNCHANGED <<now, ticks, max_requests, period, cbVars, cacheVars>>

RLTickSteps == {1, CleanupInterval}

\* the history forgets the admissions that left the trailing period
Recent(times, t) == SelectSeq(times, LAMBDA a : t - a < period)

RLTick ==
    \E d \in RLTickSteps :
        /\ Tick(d, MaxTicks)
        /\ admitted' = [k \in Domains |-> Recent(admitted[k], now')]
        /\ UNCHANGED <<max_requests, period, requests, last_cleanup, wasDenied,
                       cbVars, cacheVars, taskVars, authVars>>

RLCheck ==
    \E domain \in Domains : check_rate_limit(domain) /\ UNCHANGED <<taskVars, authVars>>

----------------------------------------------------------------------------
(* CircuitBreaker *)

\* timedelta.seconds of a non-negative timedelta: the seconds left over after
\* the whole days, not the total
Seconds(delta) == delta % SecondsPerDay

\* time_since_failure > self.recovery_timeout
RecoveryPassed(time_since_failure, timeout) == time_since_failure > timeout

\* the circuit closes one failure late
ThresholdReachedLate(n, threshold) == n > threshold

\* self.failures[endpoint] >= self.failure_threshold
ThresholdReached(n, threshold) == n >= threshold

\* del d[endpoint]
Without(d, endpoint) == [e \in DOMAIN d \ {endpoint} |-> d[e]]

\* d[endpoint] = value
With(d, endpoint, value) == (endpoint :> value) @@ d

FailureCount(f, endpoint) == IF endpoint \in DOMAIN f THEN f[endpoint] ELSE 0

CBCall(name, endpoint, value) ==
    [op |-> name, key |-> endpoint, result |-> value,
     before |-> FailureCount(failures, endpoint)]

is_open(endpoint) ==
    /\ IF endpoint \notin DOMAIN failures
       THEN /\ lastCall' = CBCall("is_open", endpoint, FALSE)
            /\ UNCHANGED <<failures, last_failure_time, failCalls>>
       ELSE IF /\ endpoint \in DOMAIN last_failure_time
               /\ RecoveryPassed(Seconds(now - last_failure_time[endpoint]),
                                 recovery_timeout)
       THEN /\ failures' = With(failures, endpoint, 0)
            /\ last_failure_time' = Without(last_failure_time, endpoint)
            /\ failCalls' = [failCalls EXCEPT ![endpoint] = 0]
            /\ lastCall' = CBCall("is_open", endpoint, FALSE)
       ELSE /\ lastCall' = CBCall("is_open", endpoint,
                                  ThresholdReached(failures[endpoint], failure_threshold))
            /\ UNCHANGED <<failures, last_failure_time, failCalls>>
    /\ UNCHANGED <<now, ticks, failure_threshold, recovery_timeout, rlVars, cacheVars>>

\* a success takes one failure off the count
SuccessDecrements(f, endpoint) ==
    With(f, endpoint, IF f[endpoint] > 0 THEN f[endpoint] - 1 ELSE 0)

\* self.failures[endpoint] = 0
SuccessResets(f, endpoint) == With(f, endpoint, 0)

record_success(endpoint) ==
    /\ IF endpoint \in DOMAIN failures
       THEN /\ failures' = SuccessResets(failures, endpoint)
            /\ last_failure_time' = Without(last_failure_time, endpoint)
       ELSE UNCHANGED <<failures, last_failure_time>>
    /\ failCalls' = [failCalls EXCEPT ![endpoint] = 0]
    /\ lastCall' = CBCall("record_success", endpoint, "None")
    /\ UNCHANGED <<now, ticks, failure_threshold, recovery_timeout, rlVars, cacheVars>>

record_failure(endpoint) ==
    /\ failures' = With(failures, endpoint, FailureCount(failures, endpoint) + 1)
    /\ last_failure_time' = With(last_failure_time, endpoint, now)
    /\ failCalls' = [failCalls EXCEPT ![endpoint] = @ + 1]
    /\ lastCall' = CBCall("record_failure", endpoint, "None")
    /\ UNCHANGED <<now, ticks, failure_threshold, recovery_timeout, rlVars, cacheVars>>

CBTickSteps == {1, SecondsPerDay}

CBTick ==
    \E d \in CBTickSteps :
        Tick(d, MaxTicks) /\ UNCHANGED <<rlVars, cbVars, cacheVars, taskVars, authVars>>

CBIsOpen ==
    \E endpoint \in Domains : is_open(endpoint) /\ UNCHANGED <<taskVars, authVars>>

CBRecordSuccess ==
    \E endpoint \in Domains : record_success(endpoint) /\ UNCHANGED <<taskVars, authVars>>

CBRecordFailure ==
    \E endpoint \in Domains :
        /\ FailureCount(failures, endpoint) < MaxFailures
        /\ record_failure(endpoint)
        /\ UNCHANGED <<taskVars, authVars>>

----------------------------------------------------------------------------
(* CacheManager *)

\* Strings are sequences of characters.
Digit == <<"0", "1", "2", "3", "4", "5", "6", "7", "8", "9">>

RECURSIVE Decimal(_)
\* str(n), n >= 0
Decimal(n) == IF n < 10 THEN <<Digit[n + 1]>>
              ELSE Decimal(n \div 10) \o <<Digit[(n % 10) + 1]>>

\* the characters of option keys, in their order
Alphabet == <<"a", "b">>

\* s.replace(from, to), from and to one character each
Replace(s, from, to) == [i \in 1..Len(s) |-> IF s[i] = from THEN to ELSE s[i]]

\* s[:n]
Take(s, n) == SubSeq(s, 1, IF Len(s) < n THEN Len(s) ELSE n)

\* An options argument is None or a dict, the dict being its (key, value)
\* items in insertion order, every key and value one character.
NoneOptions == [isNone |-> TRUE, items |-> <<>>]
Dict(items) == [isNone |-> FALSE, items |-> items]

\* options or {}
OrEmpty(options) == IF options.isNone THEN <<>> ELSE options.items

RECURSIVE SortedByKey(_)
\* the items ordered by key, as sort_keys=True writes them
SortedByKey(items) ==
    IF items = <<>> THEN <<>>
    ELSE LET i == CHOOSE i \in DOMAIN items :
                    \A j \in DOMAIN items :
                        \E a, b \in DOMAIN Alphabet :
                            /\ Alphabet[a] = items[i][1] /\ Alphabet[b] = items[j][1]
                            /\ a <= b
             rest == [j \in 1..(Len(items) - 1) |->
                        IF j < i THEN items[j] ELSE items[j + 1]]
         IN  <<items[i]>> \o SortedByKey(rest)

RECURSIVE JsonItems(_)
\* "k": v, "k": v, ...
JsonItems(items) ==
    IF items = <<>> THEN <<>>
    ELSE <<"\"", items[1][1], "\"", ":", " ", items[1][2]>>
         \o (IF Len(items) > 1 THEN <<",", " ">> ELSE <<>>)
         \o JsonItems(Tail(items))

\* json.dumps(d, sort_keys=True)
JsonDumps(items) == <<"{">> \o JsonItems(SortedByKey(items)) \o <<"}">>

\* f"{url}:{json.dumps(options or {}, sort_keys=True)}"
KeyData(url, options) == url \o <<":">> \o JsonDumps(OrEmpty(options))

_get_cache_key(url, options) ==
    Take(Replace(Replace(KeyData(url, options), "/", "_"), ":", "_"), KeyLimit)

\* the position of key in the dict, 0 when it is not there
IndexOf(c, key) ==
    LET hits == {i \in DOMAIN c : c[i].key = key}
    IN  IF hits = {} THEN 0 ELSE CHOOSE i \in hits : TRUE

\* an entry exactly ttl old is still served
FreshInclusive(age, ttlv) == age <= ttlv

\* datetime.now() - timestamp < self.ttl
Fresh(age, ttlv) == age < ttlv

\* self.cache[key] = (value, datetime.now()): a key already there keeps its place
Store(c, key, value, t) ==
    LET e == [key |-> key, value |-> value, timestamp |-> t]
        i == IndexOf(c, key)
    IN  IF i = 0 THEN Append(c, e) ELSE [c EXCEPT ![i] = e]

\* the expired entries stay
RemoveExpiredNone(c, t, ttlv) == c

\* {k: v for k, v in self.cache.items() if now - v[1] < self.ttl}
RemoveExpired(c, t, ttlv) == SelectSeq(c, LAMBDA e : Fresh(t - e.timestamp, ttlv))

RECURSIVE StableSort(_, _)
\* sorted(items, key=timestamp): ascending, equal timestamps in their old order
StableSort(c, stamps) ==
    IF stamps = {} THEN <<>>
    ELSE LET m == CHOOSE m \in stamps : \A x \in stamps : m <= x
         IN  SelectSeq(c, LAMBDA e : e.timestamp = m) \o StableSort(c, stamps \ {m})

SortedItems(c) == StableSort(c, {c[i].timestamp : i \in DOMAIN c})

\* the slice keeps the wrong end
KeepOldest(items, n) == SubSeq(items, 1, n)

\* sorted_items[-n:]
KeepNewest(items, n) == SubSeq(items, Len(items) - n + 1, Len(items))

\* the cleanup of set
CleanUp(c, t, ttlv) ==
    LET live == RemoveExpired(c, t, ttlv)
    IN  IF Len(live) > CacheTrimTo THEN KeepNewest(SortedItems(live), CacheTrimTo)
        ELSE live

\* the cleanup starts one entry late
CleanUpStartsLate(c) == Len(c) > CacheSoftCap + 1

\* len(self.cache) > 1000
CleanUpStarts(c) == Len(c) > CacheSoftCap

\* the body of set under the lock
CacheSet(c, key, value, t, ttlv) ==
    LET stored == Store(c, key, value, t)
    IN  IF CleanUpStarts(stored) THEN CleanUp(stored, t, ttlv) ELSE stored

set(url, value, options) ==
    LET key == _get_cache_key(url, options)
    IN  /\ cache' = IF ENABLE_CACHE THEN CacheSet(cache, key, value, now, ttl) ELSE cache
        /\ lastCall' = [op |-> "set", url |-> url, options |-> options, value |-> value,
                        cleaned |-> ENABLE_CACHE
                                    /\ CleanUpStarts(Store(cache, key, value, now))]
        /\ UNCHANGED <<now, ticks, ENABLE_CACHE, ttl, rlVars, cbVars>>

get(url, options) ==
    LET key   == _get_cache_key(url, options)
        i     == IF ENABLE_CACHE THEN IndexOf(cache, key) ELSE 0
        fresh == i # 0 /\ Fresh(now - cache[i].timestamp, ttl)
    IN  /\ cache' = IF i # 0 /\ ~fresh
                    THEN SelectSeq(cache, LAMBDA e : e.key # key)
                    ELSE cache
        /\ lastCall' = [op |-> "get", url |-> url, options |-> options,
                        result |-> IF fresh THEN cache[i].value ELSE "None",
                        found |-> IF i = 0 THEN "absent"
                                  ELSE IF fresh THEN "fresh" ELSE "stale",
                        after |-> IF /\ lastCall.op = "set"
                                     /\ lastCall.url = url
                                     /\ lastCall.options = options
                                  THEN IF lastCall.cleaned THEN "set and cleanup"
                                       ELSE "set"
                                  ELSE "other"]
        /\ UNCHANGED <<now, ticks, ENABLE_CACHE, ttl, rlVars, cbVars>>

clear ==
    /\ cache' = <<>>
    /\ lastCall' = [op |-> "clear"]
    /\ UNCHANGED <<now, ticks, ENABLE_CACHE, ttl, rlVars, cbVars>>

\* Requests of the model
Urls == { <<"a", "/", "b">> }
OptionsArgs == { NoneOptions, Dict(<< <<"a", "1">> >>) }
Values == {"v1", "v2"}

CacheTickSteps == {1}

CacheTick ==
    \E d \in CacheTickSteps :
        Tick(d, MaxCacheTicks) /\ UNCHANGED <<rlVars, cbVars, cacheVars, taskVars, authVars>>

CacheSetCall ==
    \E url \in Urls, value \in Values, options \in OptionsArgs :
        set(url, value, options) /\ UNCHANGED <<taskVars, authVars>>

CacheGetCall ==
    \E url \in Urls, options \in OptionsArgs :
        get(url, options) /\ UNCHANGED <<taskVars, authVars>>

CacheClearCall == clear /\ UNCHANGED <<taskVars, authVars>>

\* urls that differ only in a character that _get_cache_key replaces
KeyUrls == { <<"a", "/", "b">>, <<"a", "_", "b">> }

KeyTick ==
    Tick(1, MaxKeyTicks) /\ UNCHANGED <<rlVars, cbVars, cacheVars, taskVars, authVars>>

KeySetCall ==
    \E url \in KeyUrls, value \in Values, options \in OptionsArgs :
        set(url, value, options) /\ UNCHANGED <<taskVars, authVars>>

KeyGetCall ==
    \E url \in KeyUrls, options \in OptionsArgs :
        get(url, options) /\ UNCHANGED <<taskVars, authVars>>

\* The cache that `for i in range(n): await cache.set(f"url_{i}", "bulk")` leaves
\* when it runs within second 0 on an empty cache, n <= CacheSoftCap: n new
\* keys appended in turn, no cleanup.
Filled(n) ==
    [i \in 1..n |->
        [key |-> _get_cache_key(<<"u", "r", "l", "_">> \o Decimal(i - 1), NoneOptions),
         value |-> "bulk", timestamp |-> 0]]

\* a cache one entry short of the size that starts the cleanup
NearlyFull == Filled(CacheSoftCap - 1)

\* the entries a cleanup evicts from a cache of CacheSoftCap + 1 live entries
Evicted == CacheSoftCap + 1 - CacheTrimTo

\* how many entries the bulk loop wrote before the clock reached second 1
Splits == {Evicted \div 2, Evicted, 2 * Evicted}

\* The cache that the bulk loop leaves when the clock reaches second 1 after
\* its first k sets.
FilledAcross(n, k) ==
    LET filled == Filled(n)
    IN  [i \in 1..n |-> [filled[i] EXCEPT !.timestamp = IF i <= k THEN 0 ELSE 1]]

\* the nearly full caches of the model, filled over two seconds
NearlyFullAcross == {FilledAcross(CacheSoftCap - 1, k) : k \in Splits}

----------------------------------------------------------------------------
(* Tasks *)

Tasks == {"t1", "t2"}

\* the step a task takes is the call that ran last
Step(t, name) == [op |-> name, task |-> t]

----------------------------------------------------------------------------
(* retry_with_backoff *)

\* what the operation returns when it succeeds
Results == {"r1", "r2"}

\* the outcomes of one invocation of the operation
Outcomes == Results \cup {"error"}

\* A max_retries argument is None or an int.
NoneArg == [isNone |-> TRUE, n |-> 0]
IntArg(n) == [isNone |-> FALSE, n |-> n]

\* max_retries or Config.MAX_RETRIES: None and 0 are both falsy
OrDefault(arg, default) == IF arg.isNone \/ arg.n = 0 THEN default ELSE arg.n

RECURSIVE Pow(_, _)
\* b ** e, e >= 0
Pow(b, e) == IF e = 0 THEN 1 ELSE b * Pow(b, e - 1)

Min(a, b) == IF a <= b THEN a ELSE b

\* the cap is left out
BackoffUncapped(backoff_factor, attempt, max_backoff) == Pow(backoff_factor, attempt)

\* min(backoff_factor ** attempt, max_backoff), in seconds
Backoff(backoff_factor, attempt, max_backoff) ==
    Min(Pow(backoff_factor, attempt), max_backoff)

\* random.uniform(0, backoff * 0.1), in milliseconds: the two ends and the middle
Jitters(backoff) == {0, backoff * 50, backoff * 100}

Pending == [kind |-> "pending", value |-> "None", error |-> 0]

\* the value is dropped on the way out
ReturnedNothing(value) == [kind |-> "returned", value |-> "None", error |-> 0]

\* return await func()
Returned(value) == [kind |-> "returned", value |-> value, error |-> 0]

\* raise: the exception of invocation number n leaves the function
Raised(n) == [kind |-> "raised", value |-> "None", error |-> n]

\* falling out of the for loop: the function returns None
FellThrough == [kind |-> "returned", value |-> "None", error |-> 0]

\* the frame of a task that is not in retry_with_backoff
NoRetry ==
    [max_retries |-> NoneArg,   \* the argument
     backoff_factor |-> BackoffFactor,  \* the argument, 2.0 unless given
     max_backoff |-> MaxBackoff,        \* the argument, 60.0 unless given
     limit       |-> 0,         \* max_retries after `or Config.MAX_RETRIES`
     attempt     |-> 0,         \* the loop variable
     calls       |-> <<>>,      \* the outcome of every invocation of func so far
     sleeps      |-> <<>>,      \* every asyncio.sleep so far: backoff (s), jitter (ms)
     wakeAt      |-> 0,         \* the earliest time the sleep in progress ends
     result      |-> Pending]

\* attempt == max_retries - 1
LastAttempt(attempt, limit) == attempt = limit - 1

\* the call: max_retries is resolved and range(max_retries) starts; an empty
\* range leaves the loop at once and the function returns None
RetryEnterWith(t, arg, backoff_factor, max_backoff) ==
    LET limit == OrDefault(arg, MAX_RETRIES)
    IN  /\ retry' = [retry EXCEPT ![t] =
                        [NoRetry EXCEPT !.max_retries = arg, !.limit = limit,
                                        !.backoff_factor = backoff_factor,
                                        !.max_backoff = max_backoff,
                                        !.result = IF limit <= 0 THEN FellThrough
                                                   ELSE Pending]]
        /\ pc' = [pc EXCEPT ![t] = IF limit <= 0 THEN "retry_returned" ELSE "retry_call"]

\* the call with backoff_factor and max_backoff left at their defaults
RetryEnter(t, arg) == RetryEnterWith(t, arg, BackoffFactor, MaxBackoff)

\* await func(): the operation starts
RetryInvoke(t) ==
    /\ pc[t] = "retry_call"
    /\ pc' = [pc EXCEPT ![t] = "retry_await"]
    /\ trace' = [trace EXCEPT ![t] = Append(@, "func")]
    /\ lastCall' = Step(t, "func")
    /\ UNCHANGED <<now, ticks, rlVars, cbVars, cacheVars, MAX_RETRIES, retry, scrape,
                   authVars>>

\* the operation returns or raises; a failure on the last attempt is re-raised,
\* any other failure is followed by the backoff sleep
RetryOutcome(t) ==
    /\ pc[t] = "retry_await"
    /\ \E outcome \in Outcomes :
        LET f     == retry[t]
            calls == Append(f.calls, outcome)
            b     == Backoff(f.backoff_factor, f.attempt, f.max_backoff)
        IN  IF outcome # "error"
            THEN /\ retry' = [retry EXCEPT ![t] =
                                [f EXCEPT !.calls = calls, !.result = Returned(outcome)]]
                 /\ pc' = [pc EXCEPT ![t] = "retry_returned"]
                 /\ UNCHANGED trace
            ELSE IF LastAttempt(f.attempt, f.limit)
            THEN /\ retry' = [retry EXCEPT ![t] =
                                [f EXCEPT !.calls = calls, !.result = Raised(Len(calls))]]
                 /\ pc' = [pc EXCEPT ![t] = "retry_raised"]
                 /\ UNCHANGED trace
            ELSE \E jitter \in Jitters(b) :
                 /\ retry' = [retry EXCEPT ![t] =
                                [f EXCEPT !.calls = calls,
                                          !.sleeps = Append(@, [backoff |-> b,
                                                                jitter |-> jitter]),
                                          !.wakeAt = now + b]]
                 /\ pc' = [pc EXCEPT ![t] = "retry_sleep"]
                 /\ trace' = [trace EXCEPT ![t] = Append(@, "backoff")]
    /\ lastCall' = Step(t, "func done")
    /\ UNCHANGED <<now, ticks, rlVars, cbVars, cacheVars, MAX_RETRIES, scrape, authVars>>

\* asyncio.sleep(wait_time) is over: the loop takes its next attempt
RetryWake(t) ==
    /\ pc[t] = "retry_sleep"
    /\ now >= retry[t].wakeAt
    /\ retry' = [retry EXCEPT ![t].attempt = @ + 1]
    /\ pc' = [pc EXCEPT ![t] = "retry_call"]
    /\ lastCall' = Step(t, "wake")
    /\ UNCHANGED <<now, ticks, rlVars, cbVars, cacheVars, MAX_RETRIES, trace, scrape,
                   authVars>>

\* the max_retries arguments of the model
RetryArgs == {NoneArg} \cup {IntArg(n) : n \in 0..MaxRetries}

\* the backoff_factor and max_backoff arguments of the model: the defaults, a
\* constant backoff and a cap that the second attempt reaches
BackoffFactors == {1, BackoffFactor}
MaxBackoffs == {1, MaxBackoff}

\* one task calls retry_with_backoff(func, max_retries, backoff_factor, max_backoff)
RetryCall ==
    \E arg \in RetryArgs, backoff_factor \in BackoffFactors, max_backoff \in MaxBackoffs :
        /\ pc["t1"] = "idle"
        /\ RetryEnterWith("t1", arg, backoff_factor, max_backoff)
        /\ lastCall' = Step("t1", "retry_with_backoff")
        /\ UNCHANGED <<now, ticks, rlVars, cbVars, cacheVars, MAX_RETRIES, trace, scrape,
                       authVars>>

RetryFunc == RetryInvoke("t1")

RetryFuncDone == RetryOutcome("t1")

RetrySleepDone == RetryWake("t1")

RetryTick ==
    Tick(1, MaxRetryTicks) /\ UNCHANGED <<rlVars, cbVars, cacheVars, taskVars, authVars>>

----------------------------------------------------------------------------
(* AuthSessionManager *)

SessionIds == {"s1", "s2"}

CookieNames == {"c1"}

\* the frame of a task that is not in an AuthSessionManager method
NoAuth ==
    [op         |-> "None",     \* the method
     session_id |-> "None",     \* its argument
     stage      |-> "done",     \* called (before the lock), closing (in await
                                \* session.close(), holding the lock) or done
     session    |-> 0,          \* close_session: the client taken from the registry
     remaining  |-> {},         \* close_all: the ids whose client is still to close
     peer       |-> FALSE,      \* get_or_create_session: another task's call for the
                                \* same id, not yet in the registry, was under way
     afterClose |-> FALSE]      \* get_or_create_session: the call was made after a
                                \* close_session of the id, with no call in between

Called(t, name) == auth[t].op = name /\ auth[t].stage = "called"

\* what a task's method call reports when it ends
AuthCall(t, value) ==
    [op |-> auth[t].op, task |-> t, session_id |-> auth[t].session_id, result |-> value,
     peer |-> auth[t].peer, afterClose |-> auth[t].afterClose]

\* the saved cookies of an id, none when nothing was saved
Saved(cookies, session_id) ==
    IF session_id \in DOMAIN cookies THEN cookies[session_id] ELSE {}

\* the body runs without the lock
LockIgnored(lock) == TRUE

\* async with self._lock: the body starts when no task holds the lock
LockFree(lock) == lock = "free"

\* a client is made for every call
NeedsNewAlways(sessions, cl, session_id) == TRUE

\* session_id not in self._sessions or self._sessions[session_id].closed
NeedsNew(sessions, cl, session_id) ==
    \/ session_id \notin DOMAIN sessions
    \/ cl[sessions[session_id]].closed

\* aiohttp.ClientSession(..., cookie_jar=aiohttp.CookieJar()) and
\* cookie_jar.update_cookies(self._cookies[session_id])
NewClient(cookies, session_id) ==
    [session_id |-> session_id, closed |-> FALSE, jar |-> Saved(cookies, session_id)]

\* the lookup is skipped
HasSessionAlways(sessions, session_id) == TRUE

\* session_id in self._sessions
HasSession(sessions, session_id) == session_id \in DOMAIN sessions

\* a task calls a method; the call is under way until its body has run
AuthBegin(t, name, session_id) ==
    LET peers == {u \in Tasks \ {t} : /\ Called(u, "get_or_create_session")
                                       /\ auth[u].session_id = session_id}
        new   == name = "get_or_create_session" /\ session_id \notin DOMAIN _sessions
    IN  /\ auth[t].stage = "done"
        /\ name = "get_or_create_session" => Len(clients) < MaxClients
        /\ auth' = [u \in Tasks |->
                        IF u = t
                        THEN [NoAuth EXCEPT !.op = name, !.session_id = session_id,
                                            !.stage = "called",
                                            !.peer = new /\ peers # {},
                                            !.afterClose =
                                                /\ name = "get_or_create_session"
                                                /\ session_id \in DOMAIN closedWith]
                        ELSE IF new /\ u \in peers THEN [auth[u] EXCEPT !.peer = TRUE]
                        ELSE auth[u]]
        /\ lastCall' = [op |-> "call", task |-> t]
        /\ UNCHANGED <<now, ticks, rlVars, cbVars, cacheVars, taskVars,
                       _sessions, _cookies, clients, _lock, issued, closedWith>>

\* the body of get_or_create_session, under the lock
get_or_create_session(t) ==
    LET session_id == auth[t].session_id
        new        == NeedsNew(_sessions, clients, session_id)
        client     == IF new THEN Len(clients) + 1 ELSE _sessions[session_id]
    IN  /\ Called(t, "get_or_create_session")
        /\ LockFree(_lock)
        /\ clients' = IF new THEN Append(clients, NewClient(_cookies, session_id))
                      ELSE clients
        /\ _sessions' = IF new THEN With(_sessions, session_id, client) ELSE _sessions
        /\ auth' = [auth EXCEPT ![t] = NoAuth]
        /\ issued' = With(issued, session_id, client)
        /\ closedWith' = Without(closedWith, session_id)
        /\ lastCall' = AuthCall(t, client)
        /\ UNCHANGED <<now, ticks, rlVars, cbVars, cacheVars, taskVars, _cookies, _lock>>

\* the body of save_cookies, under the lock: the jar's cookies replace the saved ones
save_cookies(t) ==
    LET session_id == auth[t].session_id
    IN  /\ Called(t, "save_cookies")
        /\ LockFree(_lock)
        /\ _cookies' = IF session_id \in DOMAIN _sessions
                       THEN With(_cookies, session_id, clients[_sessions[session_id]].jar)
                       ELSE _cookies
        /\ auth' = [auth EXCEPT ![t] = NoAuth]
        /\ lastCall' = AuthCall(t, "None")
        /\ UNCHANGED <<now, ticks, rlVars, cbVars, cacheVars, taskVars,
                       _sessions, clients, _lock, issued, closedWith>>

\* close_session takes the lock: an id in the registry starts `await
\* session.close()` with the lock held; an id not there ends the call, and the
\* tool reports success.  self._sessions[session_id] on a missing key raises
\* KeyError, which the tool reports as a failure.  The client counts as
\* closed from some moment of the await on: at its start or at its end.
CloseSessionEnter(t) ==
    LET session_id == auth[t].session_id
    IN  /\ Called(t, "close_session")
        /\ LockFree(_lock)
        /\ IF HasSession(_sessions, session_id)
           THEN IF session_id \in DOMAIN _sessions
                THEN /\ _lock' = t
                     /\ auth' = [auth EXCEPT ![t].stage = "closing",
                                             ![t].session = _sessions[session_id]]
                     /\ \E early \in BOOLEAN :
                            clients' = [clients EXCEPT
                                            ![_sessions[session_id]].closed = early]
                     /\ lastCall' = [op |-> "session.close", task |-> t]
                ELSE /\ auth' = [auth EXCEPT ![t] = NoAuth]
                     /\ lastCall' = AuthCall(t, "KeyError")
                     /\ UNCHANGED <<_lock, clients>>
           ELSE /\ auth' = [auth EXCEPT ![t] = NoAuth]
                /\ lastCall' = AuthCall(t, "success")
                /\ UNCHANGED <<_lock, clients>>
        /\ UNCHANGED <<now, ticks, rlVars, cbVars, cacheVars, taskVars,
                       _sessions, _cookies, issued, closedWith>>

\* session.close() is over: del self._sessions[session_id], the lock is released
CloseSessionFinish(t) ==
    LET session_id == auth[t].session_id
    IN  /\ auth[t].op = "close_session" /\ auth[t].stage = "closing"
        /\ clients' = [clients EXCEPT ![auth[t].session].closed = TRUE]
        /\ _sessions' = Without(_sessions, session_id)
        /\ _lock' = "free"
        /\ auth' = [auth EXCEPT ![t] = NoAuth]
        /\ issued' = Without(issued, session_id)
        /\ closedWith' = With(closedWith, session_id, Saved(_cookies, session_id))
        /\ lastCall' = AuthCall(t, "success")
        /\ UNCHANGED <<now, ticks, rlVars, cbVars, cacheVars, taskVars, _cookies>>

\* the end of close_all: both dicts are cleared and the lock is released
CloseAllEnd(t) ==
    /\ _sessions' = <<>>
    /\ _cookies' = <<>>
    /\ _lock' = "free"
    /\ issued' = <<>>
    /\ closedWith' = <<>>
    /\ auth' = [auth EXCEPT ![t] = NoAuth]
    /\ lastCall' = AuthCall(t, "None")

\* close_all takes the lock and starts closing the clients of the registry;
\* with an empty registry the loop has nothing to await
CloseAllEnter(t) ==
    /\ Called(t, "close_all")
    /\ LockFree(_lock)
    /\ IF DOMAIN _sessions = {}
       THEN CloseAllEnd(t)
       ELSE /\ _lock' = t
            /\ auth' = [auth EXCEPT ![t].stage = "closing",
                                    ![t].remaining = DOMAIN _sessions]
            /\ lastCall' = [op |-> "session.close", task |-> t]
            /\ UNCHANGED <<_sessions, _cookies, issued, closedWith>>
    /\ UNCHANGED <<now, ticks, rlVars, cbVars, cacheVars, taskVars, clients>>

\* one `await session.close()` of close_all is over; after the last one the
\* loop ends and the dicts are cleared without another await
CloseAllStep(t) ==
    /\ auth[t].op = "close_all" /\ auth[t].stage = "closing"
    /\ \E session_id \in auth[t].remaining :
        /\ clients' = [clients EXCEPT ![_sessions[session_id]].closed = TRUE]
        /\ IF auth[t].remaining = {session_id}
           THEN CloseAllEnd(t)
           ELSE /\ auth' = [auth EXCEPT ![t].remaining = @ \ {session_id}]
                /\ lastCall' = [op |-> "session.close", task |-> t]
                /\ UNCHANGED <<_sessions, _cookies, _lock, issued, closedWith>>
    /\ UNCHANGED <<now, ticks, rlVars, cbVars, cacheVars, taskVars>>

\* a response received over a client that is open sets a cookie in its jar
ReceiveCookie ==
    \E i \in DOMAIN clients, cookie \in CookieNames :
        /\ ~clients[i].closed
        /\ cookie \notin clients[i].jar
        /\ clients' = [clients EXCEPT ![i].jar = @ \cup {cookie}]
        /\ lastCall' = [op |-> "Set-Cookie", client |-> i]
        /\ UNCHANGED <<now, ticks, rlVars, cbVars, cacheVars, taskVars,
                       _sessions, _cookies, _lock, auth, issued, closedWith>>

AuthCalls == {"get_or_create_session", "close_session"}

AuthCallMethod ==
    \E t \in Tasks, name \in AuthCalls, session_id \in SessionIds :
        AuthBegin(t, name, session_id)

\* the calls of the tasks that log in to one site and log out again
CookieCalls == {"get_or_create_session", "save_cookies", "close_session"}

CookieCallMethod == \E t \in Tasks, name \in CookieCalls : AuthBegin(t, name, "s1")

AuthCallCloseAll == \E t \in Tasks : AuthBegin(t, "close_all", "None")

AuthGetOrCreate == \E t \in Tasks : get_or_create_session(t)

AuthSaveCookies == \E t \in Tasks : save_cookies(t)

AuthCloseSession == \E t \in Tasks : CloseSessionEnter(t)

AuthCloseSessionDone == \E t \in Tasks : CloseSessionFinish(t)

AuthCloseAll == \E t \in Tasks : CloseAllEnter(t)

AuthCloseAllNext == \E t \in Tasks : CloseAllStep(t)

----------------------------------------------------------------------------
(* scrape_webpage *)

\* urlparse(url).netloc: the pages of the model are pages of one site
Netloc(url) == "example.com"

\* options.dict(): the fields of ScrapeOptions, never None
OptionsDict == Dict(<< <<"a", "1">> >>)

NoOutcome == [kind |-> "pending", value |-> "None"]

\* the frame of a task that is not in scrape_webpage
NoScrape ==
    [url            |-> <<>>,
     use_cache      |-> FALSE,      \* options.use_cache
     simulate_human |-> FALSE,      \* options.simulate_human
     wakeAt         |-> 0,          \* the earliest end of the asyncio.sleep(1) in progress
     cached         |-> "None",     \* cached_result
     error          |-> "None",     \* the exception on its way to the except clauses
     outcome        |-> NoOutcome,  \* what the caller gets: a result or an exception
     calls          |-> 0]          \* history: the calls the task has made

\* if cached_result: None is falsy, a stored result dict is truthy
CacheHitNever(value) == FALSE

CacheHit(value) == value # "None"

\* every exception is recorded as a failure
HandledAlways(error) == TRUE

\* no exception is recorded as a failure
HandledNever(error) == FALSE

\* `except CircuitBreakerError: raise` comes before `except Exception`
Handled(error) == error # "CircuitBreakerError"

\* the exception leaves scrape_webpage
Raises(error) == [kind |-> "raised", value |-> error]

\* return error_result: success False, error_type the exception's type
ErrorResult(error) == [kind |-> "error_result", value |-> error]

\* return cached_result / return result
Result(value) == [kind |-> "result", value |-> value]

Moves(t, to, step) ==
    /\ pc' = [pc EXCEPT ![t] = to]
    /\ trace' = [trace EXCEPT ![t] = Append(@, step)]

\* the call, up to the try: a valid url, options with any use_cache and
\* simulate_human
ScrapeCall(t, url, use_cache, simulate_human) ==
    /\ pc[t] \in {"idle", "done"}
    /\ scrape[t].calls < MaxFetches
    /\ scrape' = [scrape EXCEPT ![t] =
                    [NoScrape EXCEPT !.url = url, !.use_cache = use_cache,
                                     !.simulate_human = simulate_human,
                                     !.calls = scrape[t].calls + 1]]
    /\ pc' = [pc EXCEPT ![t] = IF use_cache THEN "cache_lookup" ELSE "gate"]
    /\ trace' = [trace EXCEPT ![t] = <<>>]
    /\ retry' = [retry EXCEPT ![t] = NoRetry]
    /\ lastCall' = Step(t, "scrape_webpage")
    /\ UNCHANGED <<now, ticks, rlVars, cbVars, cacheVars, MAX_RETRIES, authVars>>

\* cached_result = await cache_manager.get(url, options.dict()); a hit is returned
ScrapeCacheLookup(t) ==
    /\ pc[t] = "cache_lookup"
    /\ get(scrape[t].url, OptionsDict)
    /\ IF CacheHit(lastCall'.result)
       THEN /\ Moves(t, "done", "cache.get")
            /\ scrape' = [scrape EXCEPT ![t].cached = lastCall'.result,
                                        ![t].outcome = Result(lastCall'.result)]
       ELSE /\ Moves(t, "gate", "cache.get")
            /\ scrape' = [scrape EXCEPT ![t].cached = lastCall'.result]
    /\ UNCHANGED <<MAX_RETRIES, retry, authVars>>

\* if await circuit_breaker.is_open(domain): raise CircuitBreakerError
ScrapeGate(t) ==
    /\ pc[t] = "gate"
    /\ is_open(Netloc(scrape[t].url))
    /\ IF lastCall'.result
       THEN /\ Moves(t, "except", "circuit open")
            /\ scrape' = [scrape EXCEPT ![t].error = "CircuitBreakerError"]
       ELSE /\ Moves(t, "rate_limit", "circuit closed")
            /\ UNCHANGED scrape
    /\ UNCHANGED <<MAX_RETRIES, retry, authVars>>

\* one pass of the loop of wait_if_needed: a denied check is followed by
\* asyncio.sleep(1), an admitted one by the human delay or the request
ScrapeRateLimit(t) ==
    /\ pc[t] = "rate_limit"
    /\ check_rate_limit(Netloc(scrape[t].url))
    /\ IF ~lastCall'.result
       THEN /\ Moves(t, "rate_sleep", "denied")
            /\ scrape' = [scrape EXCEPT ![t].wakeAt = now + 1]
            /\ UNCHANGED retry
       ELSE IF scrape[t].simulate_human
       THEN /\ Moves(t, "human_delay", "admitted")
            /\ UNCHANGED <<scrape, retry>>
       ELSE /\ RetryEnter(t, NoneArg)
            /\ trace' = [trace EXCEPT ![t] = Append(@, "admitted")]
            /\ UNCHANGED scrape
    /\ UNCHANGED <<MAX_RETRIES, authVars>>

\* the limiter is asked once: after the sleep the request goes out
ScrapeRateWakeOnce(t) ==
    /\ pc[t] = "rate_sleep"
    /\ now >= scrape[t].wakeAt
    /\ RetryEnter(t, NoneArg)
    /\ lastCall' = Step(t, "wake")
    /\ UNCHANGED <<now, ticks, rlVars, cbVars, cacheVars, MAX_RETRIES, trace, scrape,
                   authVars>>

\* asyncio.sleep(1) is over: the loop checks again
ScrapeRateWake(t) ==
    /\ pc[t] = "rate_sleep"
    /\ now >= scrape[t].wakeAt
    /\ pc' = [pc EXCEPT ![t] = "rate_limit"]
    /\ lastCall' = Step(t, "wake")
    /\ UNCHANGED <<now, ticks, rlVars, cbVars, cacheVars, MAX_RETRIES, retry, trace,
                   scrape, authVars>>

\* simulate_human_delay is over: retry_with_backoff(make_request) is called
ScrapeHumanDelay(t) ==
    /\ pc[t] = "human_delay"
    /\ RetryEnter(t, NoneArg)
    /\ lastCall' = Step(t, "wake")
    /\ UNCHANGED <<now, ticks, rlVars, cbVars, cacheVars, MAX_RETRIES, trace, scrape,
                   authVars>>

\* content, status_code, response_headers = <what retry_with_backoff
\* returned>, then record_success; unpacking None raises TypeError
ScrapeRecordSuccess(t) ==
    /\ pc[t] = "retry_returned"
    /\ IF retry[t].result.value = "None"
       THEN /\ Moves(t, "except", "TypeError")
            /\ scrape' = [scrape EXCEPT ![t].error = "TypeError"]
            /\ lastCall' = Step(t, "unpack")
            /\ UNCHANGED <<now, ticks, rlVars, cbVars, cacheVars>>
       ELSE /\ record_success(Netloc(scrape[t].url))
            /\ Moves(t, "parse", "record_success")
            /\ UNCHANGED scrape
    /\ UNCHANGED <<MAX_RETRIES, retry, authVars>>

\* the page is parsed and the result is stored in the cache and returned
ScrapeFinish(t) ==
    /\ pc[t] = "parse"
    /\ IF scrape[t].use_cache
       THEN /\ set(scrape[t].url, retry[t].result.value, OptionsDict)
            /\ Moves(t, "done", "cache.set")
       ELSE /\ Moves(t, "done", "return")
            /\ lastCall' = Step(t, "return")
            /\ UNCHANGED <<now, ticks, rlVars, cbVars, cacheVars>>
    /\ scrape' = [scrape EXCEPT ![t].outcome = Result(retry[t].result.value)]
    /\ UNCHANGED <<MAX_RETRIES, retry, authVars>>

\* the parsing raises (BeautifulSoup, dict(response_headers), the slices)
ScrapeParseFails(t) ==
    /\ pc[t] = "parse"
    /\ Moves(t, "except", "ParseError")
    /\ scrape' = [scrape EXCEPT ![t].error = "ParseError"]
    /\ lastCall' = Step(t, "parse")
    /\ UNCHANGED <<now, ticks, rlVars, cbVars, cacheVars, MAX_RETRIES, retry, authVars>>

\* the except clauses: CircuitBreakerError is raised again; any other
\* exception is recorded as a failure and an error result is returned
ScrapeExcept(t) ==
    LET error == IF pc[t] = "retry_raised" THEN "ClientError" ELSE scrape[t].error
    IN  /\ pc[t] \in {"retry_raised", "except"}
        /\ IF Handled(error)
           THEN /\ record_failure(Netloc(scrape[t].url))
                /\ Moves(t, "done", "record_failure")
                /\ scrape' = [scrape EXCEPT ![t].error = error,
                                            ![t].outcome = ErrorResult(error)]
           ELSE /\ Moves(t, "done", "raise")
                /\ scrape' = [scrape EXCEPT ![t].error = error,
                                            ![t].outcome = Raises(error)]
                /\ lastCall' = Step(t, "raise")
                /\ UNCHANGED <<now, ticks, rlVars, cbVars, cacheVars>>
        /\ UNCHANGED <<MAX_RETRIES, retry, authVars>>

\* one task at a time fetches pages of the site
Fetch ==
    \E url \in Urls, use_cache \in BOOLEAN, simulate_human \in BOOLEAN :
        ScrapeCall("t1", url, use_cache, simulate_human)

FetchCacheLookup == ScrapeCacheLookup("t1")

FetchGate == ScrapeGate("t1")

FetchRateLimit == ScrapeRateLimit("t1")

FetchRateWake == ScrapeRateWake("t1")

FetchHumanDelay == ScrapeHumanDelay("t1")

FetchRequest == RetryInvoke("t1")

FetchResponse == RetryOutcome("t1")

FetchBackoffDone == RetryWake("t1")

FetchRecordSuccess == ScrapeRecordSuccess("t1")

FetchFinish == ScrapeFinish("t1")

FetchParseFails == ScrapeParseFails("t1")

FetchExcept == ScrapeExcept("t1")

FetchTick ==
    Tick(1, MaxScrapeTicks) /\ UNCHANGED <<rlVars, cbVars, cacheVars, taskVars, authVars>>

----------------------------------------------------------------------------
(* Concurrent scrape_webpage calls *)

\* the tasks call scrape_webpage for pages of the same site, without the cache
\* and the human delay
CrowdCall ==
    \E t \in Tasks, url \in Urls :
        /\ scrape[t].calls < MaxCrowdCalls
        /\ ScrapeCall(t, url, FALSE, FALSE)

CrowdGate == \E t \in Tasks : ScrapeGate(t)

CrowdRateLimit == \E t \in Tasks : ScrapeRateLimit(t)

CrowdRequest == \E t \in Tasks : RetryInvoke(t)

CrowdResponse == \E t \in Tasks : RetryOutcome(t)

CrowdBackoffDone == \E t \in Tasks : RetryWake(t)

CrowdRecordSuccess == \E t \in Tasks : ScrapeRecordSuccess(t)

CrowdFinish == \E t \in Tasks : ScrapeFinish(t)

CrowdParseFails == \E t \in Tasks : ScrapeParseFails(t)

CrowdExcept == \E t \in Tasks : ScrapeExcept(t)

CrowdTick ==
    Tick(1, MaxScrapeTicks) /\ UNCHANGED <<rlVars, cbVars, cacheVars, taskVars, authVars>>

----------------------------------------------------------------------------
(* RateLimiter.wait_if_needed *)

\* await rate_limiter.wait_if_needed(domain) is called
WaitEnter(t, domain) ==
    /\ pc[t] \in {"idle", "wait_returned"}
    /\ ticks < MaxWaitTicks
    /\ pc' = [pc EXCEPT ![t] = "wait_poll"]
    /\ trace' = [trace EXCEPT ![t] = <<>>]
    /\ scrape' = [scrape EXCEPT ![t] = NoScrape]
    /\ lastCall' = Step(t, "wait_if_needed")
    /\ UNCHANGED <<now, ticks, rlVars, cbVars, cacheVars, MAX_RETRIES, retry, authVars>>

\* while not await self.check_rate_limit(domain): await asyncio.sleep(1)
WaitPoll(t, domain) ==
    /\ pc[t] = "wait_poll"
    /\ check_rate_limit(domain)
    /\ IF lastCall'.result
       THEN /\ Moves(t, "wait_returned", "admitted")
            /\ UNCHANGED scrape
       ELSE /\ Moves(t, "wait_sleep", "denied")
            /\ scrape' = [scrape EXCEPT ![t].wakeAt = now + 1]
    /\ UNCHANGED <<MAX_RETRIES, retry, authVars>>

\* asyncio.sleep(1) is over: the loop condition is evaluated again
WaitWake(t) ==
    /\ pc[t] = "wait_sleep"
    /\ now >= scrape[t].wakeAt
    /\ pc' = [pc EXCEPT ![t] = "wait_poll"]
    /\ lastCall' = Step(t, "wake")
    /\ UNCHANGED <<now, ticks, rlVars, cbVars, cacheVars, MAX_RETRIES, retry, trace,
                   scrape, authVars>>

WaitKey == "example.com"

WaitCall == WaitEnter("t1", WaitKey)

WaitCheck == WaitPoll("t1", WaitKey)

WaitSleepDone == WaitWake("t1")

\* the other callers of check_rate_limit; they stop after MaxWaitTicks ticks
WaitOthers ==
    /\ ticks < MaxWaitTicks
    /\ \E domain \in Domains : check_rate_limit(domain)
    /\ UNCHANGED <<taskVars, authVars>>

\* the clock runs on until every request made in the first MaxWaitTicks
\* ticks has left the window
WaitTick ==
    /\ Tick(1, MaxWaitTicks + period + 1)
    /\ admitted' = [k \in Domains |-> Recent(admitted[k], now')]
    /\ UNCHANGED <<max_requests, period, requests, last_cleanup, wasDenied,
                   cbVars, cacheVars, taskVars, authVars>>

----------------------------------------------------------------------------
(* Construction *)

ClockInit == now = 0 /\ ticks = 0 /\ lastCall = NoCall

\* RateLimiter.__init__
RLInit(limits, periods) ==
    /\ max_requests \in limits
    /\ period \in periods
    /\ requests = <<>>
    /\ last_cleanup = 0
    /\ admitted = [d \in Domains |-> <<>>]
    /\ wasDenied = {}

\* CircuitBreaker.__init__
CBInit(thresholds, timeouts) ==
    /\ failure_threshold \in thresholds
    /\ recovery_timeout \in timeouts
    /\ failures = <<>>
    /\ last_failure_time = <<>>
    /\ failCalls = [e \in Domains |-> 0]

\* CacheManager.__init__; `filled` are the caches the run starts from
CacheInit(enabled, ttls, filled) ==
    /\ ENABLE_CACHE \in enabled
    /\ ttl \in ttls
    /\ cache \in (IF ENABLE_CACHE THEN filled ELSE {<<>>})

\* Config.MAX_RETRIES as read from the environment; no task has started
TaskInit(retries) ==
    /\ MAX_RETRIES \in retries
    /\ pc = [t \in Tasks |-> "idle"]
    /\ retry = [t \in Tasks |-> NoRetry]
    /\ trace = [t \in Tasks |-> <<>>]
    /\ scrape = [t \in Tasks |-> NoScrape]

\* AuthSessionManager.__init__
AuthInit ==
    /\ _sessions = <<>>
    /\ _cookies = <<>>
    /\ clients = <<>>
    /\ _lock = "free"
    /\ auth = [t \in Tasks |-> NoAuth]
    /\ issued = <<>>
    /\ closedWith = <<>>

----------------------------------------------------------------------------
(* Specifications: one per component, the other components as constructed
   with their default arguments *)

RLSpecInit ==
    /\ ClockInit
    /\ RLInit(0..MaxMaxRequests, 1..MaxPeriod)
    /\ CBInit({DefaultFailureThreshold}, {DefaultRecoveryTimeout})
    /\ CacheInit({TRUE}, {DefaultTtl}, {<<>>})
    /\ TaskInit({DefaultMaxRetries})
    /\ AuthInit

RLNext == RLCheck \/ RLTick

RLSpec == RLSpecInit /\ [][RLNext]_vars

CBSpecInit ==
    /\ ClockInit
    /\ RLInit({DefaultMaxRequests}, {DefaultPeriod})
    /\ CBInit(1..MaxThreshold, 1..MaxRecoveryTimeout)
    /\ CacheInit({TRUE}, {DefaultTtl}, {<<>>})
    /\ TaskInit({DefaultMaxRetries})
    /\ AuthInit

CBNext == CBIsOpen \/ CBRecordSuccess \/ CBRecordFailure \/ CBTick

CBSpec == CBSpecInit /\ [][CBNext]_vars

\* The cache starts empty, or as a run of CacheSoftCap - 1 set calls left it.
CacheSpecInit ==
    /\ ClockInit
    /\ RLInit({DefaultMaxRequests}, {DefaultPeriod})
    /\ CBInit({DefaultFailureThreshold}, {DefaultRecoveryTimeout})
    /\ CacheInit(BOOLEAN, 0..MaxTtl, {<<>>, NearlyFull})
    /\ TaskInit({DefaultMaxRetries})
    /\ AuthInit

CacheNext == CacheSetCall \/ CacheGetCall \/ CacheClearCall \/ CacheTick

CacheSpec == CacheSpecInit /\ [][CacheNext]_vars

\* a cache manager whose cache was filled during seconds 0 and 1, one entry
\* short of the size that starts the cleanup
EvictSpecInit ==
    /\ now = 1 /\ ticks = 0 /\ lastCall = NoCall
    /\ RLInit({DefaultMaxRequests}, {DefaultPeriod})
    /\ CBInit({DefaultFailureThreshold}, {DefaultRecoveryTimeout})
    /\ CacheInit({TRUE}, {MaxTtl, DefaultTtl}, NearlyFullAcross)
    /\ TaskInit({DefaultMaxRetries})
    /\ AuthInit

EvictNext == CacheSetCall \/ CacheTick

EvictSpec == EvictSpecInit /\ [][EvictNext]_vars

\* the circuit breaker after n calls of record_failure(endpoint) at second 0
CBFailed(endpoint, n) ==
    /\ failure_threshold = DefaultFailureThreshold
    /\ recovery_timeout = DefaultRecoveryTimeout
    /\ failures = (endpoint :> n)
    /\ last_failure_time = (endpoint :> 0)
    /\ failCalls = [e \in Domains |-> IF e = endpoint THEN n ELSE 0]

\* concurrent scrape_webpage calls for a site that has failed four times in a
\* row, one failure short of an open circuit
CrowdSpecInit ==
    /\ ClockInit
    /\ RLInit({DefaultMaxRequests}, {DefaultPeriod})
    /\ CBFailed("example.com", DefaultFailureThreshold - 1)
    /\ CacheInit({TRUE}, {DefaultTtl}, {<<>>})
    /\ TaskInit(1..MaxScrapeRetries)
    /\ AuthInit

CrowdNext ==
    \/ CrowdCall \/ CrowdGate \/ CrowdRateLimit
    \/ CrowdRequest \/ CrowdResponse \/ CrowdBackoffDone
    \/ CrowdRecordSuccess \/ CrowdFinish \/ CrowdParseFails
    \/ CrowdExcept
    \/ CrowdTick

CrowdSpec == CrowdSpecInit /\ [][CrowdNext]_vars

\* the cache manager as constructed, used for several urls
KeySpecInit ==
    /\ ClockInit
    /\ RLInit({DefaultMaxRequests}, {DefaultPeriod})
    /\ CBInit({DefaultFailureThreshold}, {DefaultRecoveryTimeout})
    /\ CacheInit({TRUE}, {DefaultTtl}, {<<>>})
    /\ TaskInit({DefaultMaxRetries})
    /\ AuthInit

KeyNext == KeySetCall \/ KeyGetCall \/ KeyTick

KeySpec == KeySpecInit /\ [][KeyNext]_vars

\* retry_with_backoff called by one task, for every Config.MAX_RETRIES that
\* int(os.getenv('MCP_MAX_RETRIES', '3')) accepts, from 0 up
RetrySpecInit ==
    /\ ClockInit
    /\ RLInit({DefaultMaxRequests}, {DefaultPeriod})
    /\ CBInit({DefaultFailureThreshold}, {DefaultRecoveryTimeout})
    /\ CacheInit({TRUE}, {DefaultTtl}, {<<>>})
    /\ TaskInit(0..MaxRetries)
    /\ AuthInit

RetryNext == RetryCall \/ RetryFunc \/ RetryFuncDone \/ RetrySleepDone \/ RetryTick

RetrySpec == RetrySpecInit /\ [][RetryNext]_vars

\* AuthSessionManager used by concurrent tasks
AuthSpecInit ==
    /\ ClockInit
    /\ RLInit({DefaultMaxRequests}, {DefaultPeriod})
    /\ CBInit({DefaultFailureThreshold}, {DefaultRecoveryTimeout})
    /\ CacheInit({TRUE}, {DefaultTtl}, {<<>>})
    /\ TaskInit({DefaultMaxRetries})
    /\ AuthInit

AuthNext ==
    \/ AuthCallMethod \/ AuthCallCloseAll
    \/ AuthGetOrCreate
    \/ AuthCloseSession \/ AuthCloseSessionDone
    \/ AuthCloseAll \/ AuthCloseAllNext

AuthSpec == AuthSpecInit /\ [][AuthNext]_vars

\* AuthSessionManager with the cookies: responses set cookies, save_cookies
\* stores them
CookieSpecInit == AuthSpecInit

CookieNext ==
    \/ CookieCallMethod
    \/ AuthGetOrCreate \/ AuthSaveCookies
    \/ AuthCloseSession \/ AuthCloseSessionDone
    \/ ReceiveCookie

CookieSpec == CookieSpecInit /\ [][CookieNext]_vars

\* scrape_webpage over the global rate_limiter, circuit_breaker (5, 60) and
\* cache_manager, the rate limit set to one request per second or left at its
\* default
ScrapeSpecInit ==
    /\ ClockInit
    /\ RLInit({1, DefaultMaxRequests}, {1})
    /\ CBInit({DefaultFailureThreshold}, {DefaultRecoveryTimeout})
    /\ CacheInit({TRUE}, {DefaultTtl}, {<<>>})
    /\ TaskInit(0..MaxScrapeRetries)
    /\ AuthInit

ScrapeNext ==
    \/ Fetch \/ FetchCacheLookup \/ FetchGate
    \/ FetchRateLimit \/ FetchRateWake \/ FetchHumanDelay
    \/ FetchRequest \/ FetchResponse \/ FetchBackoffDone
    \/ FetchRecordSuccess \/ FetchFinish \/ FetchParseFails
    \/ FetchExcept
    \/ FetchTick

ScrapeSpec == ScrapeSpecInit /\ [][ScrapeNext]_vars

\* scrape_webpage under a rate limit of one request per default period
BurstSpecInit ==
    /\ ClockInit
    /\ RLInit({1}, {DefaultPeriod})
    /\ CBInit({DefaultFailureThreshold}, {DefaultRecoveryTimeout})
    /\ CacheInit({TRUE}, {DefaultTtl}, {<<>>})
    /\ TaskInit(0..MaxScrapeRetries)
    /\ AuthInit

BurstSpec == BurstSpecInit /\ [][ScrapeNext]_vars

\* wait_if_needed on a limiter that admits at least one request per period,
\* among other callers of check_rate_limit
WaitSpecInit ==
    /\ ClockInit
    /\ RLInit(1..MaxMaxRequests, 1..MaxPeriod)
    /\ CBInit({DefaultFailureThreshold}, {DefaultRecoveryTimeout})
    /\ CacheInit({TRUE}, {DefaultTtl}, {<<>>})
    /\ TaskInit({DefaultMaxRetries})
    /\ AuthInit

WaitNext == WaitCall \/ WaitCheck \/ WaitSleepDone \/ WaitOthers \/ WaitTick

\* the event loop resumes a task that is ready, and time passes
WaitSpec ==
    /\ WaitSpecInit /\ [][WaitNext]_vars
    /\ WF_vars(WaitCheck) /\ WF_vars(WaitSleepDone) /\ WF_vars(WaitTick)

----------------------------------------------------------------------------
(* RateLimiter: properties *)

IsCheck(call, k) == call.op = "check_rate_limit" /\ call.key = k

\* the timestamps stored for k that lie within the trailing period at time t
InWindow(reqs, k, t) ==
    IF k \in DOMAIN reqs THEN SelectSeq(reqs[k], LAMBDA a : t - a < period) ELSE <<>>

Oldest(times) == CHOOSE a \in {times[i] : i \in DOMAIN times} :
                    \A i \in DOMAIN times : a <= times[i]

\* C1: at every moment at most max_requests calls for a key returned True
\* within the trailing period, and a call made while exactly max_requests
\* admissions lie within the trailing period returns False.
C1_AtMostMaxRequestsPerWindow ==
    /\ [](\A k \in Domains : Len(admitted[k]) <= max_requests)
    /\ [][\A k \in Domains :
            IsCheck(lastCall', k) /\ Len(admitted[k]) = max_requests
                => lastCall'.result = FALSE]_vars

\* two admissions at different times share a window and the third call is denied
C1_Witness ==
    \E k \in Domains :
        /\ IsCheck(lastCall, k) /\ ~lastCall.result
        /\ max_requests = 2 /\ Len(admitted[k]) = 2
        /\ admitted[k][1] < admitted[k][2]

\* C2: for a key that has been denied, a call made when at least `period`
\* seconds have passed since the oldest request still stored for the key
\* returns True and records the request.
C2_AdmittedAgainAfterPeriod ==
    [][\A k \in Domains :
        /\ IsCheck(lastCall', k)
        /\ k \in wasDenied
        /\ k \in DOMAIN requests /\ requests[k] # <<>>
        /\ now - Oldest(requests[k]) >= period
        => /\ lastCall'.result = TRUE
           /\ requests'[k] # <<>>
           /\ requests'[k][Len(requests'[k])] = now]_vars

\* a key that was denied is admitted again
C2_Witness ==
    \E k \in Domains :
        /\ IsCheck(lastCall, k) /\ lastCall.result
        /\ k \in wasDenied
        /\ max_requests = 2 /\ Len(requests[k]) = 2

\* C3: a call that returns False leaves the in-window timestamps stored for
\* its key as they were.
C3_DenialRecordsNothing ==
    [][\A k \in Domains :
        IsCheck(lastCall', k) /\ ~lastCall'.result
            => InWindow(requests', k, now) = InWindow(requests, k, now)]_vars

\* a denial with a full window
C3_Witness ==
    \E k \in Domains :
        /\ IsCheck(lastCall, k) /\ ~lastCall.result
        /\ max_requests >= 1
        /\ Len(InWindow(requests, k, now)) = max_requests

\* C4: a call for one key changes no other key's in-window timestamps, and
\* its result is decided by the admissions of its own key alone.
C4_KeysIndependent ==
    [][\A k \in Domains :
        IsCheck(lastCall', k)
            => /\ \A j \in Domains \ {k} :
                    InWindow(requests', j, now) = InWindow(requests, j, now)
               /\ lastCall'.result = (Len(admitted[k]) < max_requests)]_vars

\* after a sweep, one key is exhausted and was denied, the other is admitted
C4_Witness ==
    \E k \in Domains : \E j \in Domains \ {k} :
        /\ IsCheck(lastCall, k) /\ lastCall.result
        /\ j \in wasDenied
        /\ max_requests >= 1 /\ Len(admitted[j]) = max_requests
        /\ last_cleanup > 0

\* C5 as stated: whatever max_requests and period, a call for a key with no
\* request in the trailing period returns True.
C5_ZeroRequestsAdmitted ==
    [][\A k \in Domains :
        IsCheck(lastCall', k) /\ InWindow(requests, k, now) = <<>>
            => lastCall'.result = TRUE]_vars

\* C5 amended: when max_requests >= 1, a call for a key with no request in
\* the trailing period returns True.
C5_ZeroRequestsAdmittedPositive ==
    [][\A k \in Domains :
        IsCheck(lastCall', k) /\ InWindow(requests, k, now) = <<>> /\ max_requests >= 1
            => lastCall'.result = TRUE]_vars

\* the first request of a key is admitted by a limiter of one request
C5_Witness ==
    \E k \in Domains :
        /\ IsCheck(lastCall, k) /\ lastCall.result
        /\ max_requests = 1
        /\ requests[k] = <<now>>

----------------------------------------------------------------------------
(* CircuitBreaker: properties *)

IsCall(call, name, k) == call.op = name /\ call.key = k

\* C6: while less than recovery_timeout seconds have passed since the key's
\* last failure, is_open returns True exactly when at least failure_threshold
\* record_failure calls were made for the key since its last reset; a key
\* with no recorded failure is closed.
C6_OpenIffThresholdFailures ==
    [][\A k \in Domains :
        /\ IsCall(lastCall', "is_open", k)
        /\ \/ k \notin DOMAIN last_failure_time
           \/ now - last_failure_time[k] < recovery_timeout
        => lastCall'.result = (failCalls[k] >= failure_threshold)]_vars

\* is_open answers True right at the threshold of two failures
C6_Witness ==
    \E k \in Domains :
        /\ IsCall(lastCall, "is_open", k) /\ lastCall.result
        /\ failure_threshold = 2 /\ failCalls[k] = 2

\* C7: after record_success(key) the failure count of the key is 0 and it has
\* no last_failure_time, and an is_open(key) that comes next returns False.
C7_SuccessResets ==
    /\ [](\A k \in Domains :
            IsCall(lastCall, "record_success", k)
                => FailureCount(failures, k) = 0 /\ k \notin DOMAIN last_failure_time)
    /\ [][\A k \in Domains :
            IsCall(lastCall, "record_success", k) /\ IsCall(lastCall', "is_open", k)
                => lastCall'.result = FALSE]_vars

\* record_success has run on a circuit whose count had reached the threshold
C7_Witness ==
    \E k \in Domains :
        /\ IsCall(lastCall, "record_success", k)
        /\ failure_threshold = 2 /\ lastCall.before >= 2

\* C8 as stated: for an open circuit, an is_open made at least
\* recovery_timeout seconds after the last failure returns False and leaves
\* the key at failure count 0 with no last_failure_time.
C8_RecoversAfterTimeout ==
    [][\A k \in Domains :
        /\ IsCall(lastCall', "is_open", k)
        /\ k \in DOMAIN failures /\ failures[k] >= failure_threshold
        /\ k \in DOMAIN last_failure_time
        /\ now - last_failure_time[k] >= recovery_timeout
        => /\ lastCall'.result = FALSE
           /\ failures'[k] = 0
           /\ k \notin DOMAIN last_failure_time']_vars

----------------------------------------------------------------------------
(* CacheManager: properties *)

SameRequest(a, b) == a.url = b.url /\ a.options = b.options

\* C9 as stated: with caching enabled, a get that comes right after a set
\* with the same url and options returns the value that was set.
C9_RoundTrip ==
    [][ENABLE_CACHE /\ lastCall.op = "set" /\ lastCall'.op = "get"
        /\ SameRequest(lastCall, lastCall')
            => lastCall'.result = lastCall.value]_vars

\* C9 amended: with caching enabled and a ttl of at least one second, a get
\* that comes right after a set with the same url and options returns the
\* value that was set, also when the set ran the cleanup.
C9_RoundTripPositiveTtl ==
    [][ENABLE_CACHE /\ ttl >= 1 /\ lastCall.op = "set" /\ lastCall'.op = "get"
        /\ SameRequest(lastCall, lastCall')
            => lastCall'.result = lastCall.value]_vars

\* a get returns the value of the set before it, which ran the cleanup and
\* trimmed the cache
C9_Witness ==
    /\ lastCall.op = "get" /\ lastCall.after = "set and cleanup"
    /\ lastCall.result \in Values
    /\ Len(cache) = CacheTrimTo

\* C10: a get that finds an entry for its key returns the entry's value and
\* keeps it when now - timestamp < ttl, and returns None and removes the
\* entry when now - timestamp >= ttl; every value a get returns is the value
\* of an entry that was in the cache and younger than ttl.
C10_Expiry ==
    [][lastCall'.op = "get" /\ ENABLE_CACHE
        => /\ \A i \in DOMAIN cache :
                cache[i].key = _get_cache_key(lastCall'.url, lastCall'.options)
                  => IF now - cache[i].timestamp < ttl
                     THEN lastCall'.result = cache[i].value /\ cache' = cache
                     ELSE /\ lastCall'.result = "None"
                          /\ \A j \in DOMAIN cache' : cache'[j].key # cache[i].key
           /\ lastCall'.result # "None"
                => \E i \in DOMAIN cache :
                      /\ cache[i].key = _get_cache_key(lastCall'.url, lastCall'.options)
                      /\ cache[i].value = lastCall'.result
                      /\ now - cache[i].timestamp < ttl]_vars

\* a get found an entry exactly ttl = 2 seconds old, removed it and returned None
C10_Witness ==
    /\ lastCall.op = "get" /\ lastCall.found = "stale" /\ lastCall.result = "None"
    /\ ttl = 2
    /\ \A i \in DOMAIN cache : now - cache[i].timestamp < ttl

\* C11: whatever set, get and clear calls ran and however much time passed,
\* the cache holds at most 1000 entries once a set has completed (and so at
\* every moment between calls).
C11_CacheSizeBound == Len(cache) <= CacheSoftCap

\* a set stored the 1001st key and its cleanup brought the cache under the cap
C11_Witness ==
    /\ lastCall.op = "set" /\ lastCall.cleaned
    /\ Len(cache) < CacheSoftCap

----------------------------------------------------------------------------
(* retry_with_backoff: properties *)

\* the call of the task has ended, by return or by raise
RetryEnded(t) == pc[t] \in {"retry_returned", "retry_raised"}

\* C12: when the first invocation of the operation succeeds, the operation
\* was invoked exactly once, no backoff sleep took place, and the call
\* returned the very value the operation returned.
C12_FirstSuccess ==
    \A t \in Tasks :
        /\ RetryEnded(t)
        /\ retry[t].calls # <<>>
        /\ retry[t].calls[1] # "error"
        => /\ Len(retry[t].calls) = 1
           /\ retry[t].sleeps = <<>>
           /\ SelectSeq(trace[t], LAMBDA e : e = "func") = <<"func">>
           /\ pc[t] = "retry_returned"
           /\ retry[t].result = [kind |-> "returned", value |-> retry[t].calls[1],
                                 error |-> 0]

\* the operation returned r2 at its first invocation and the call returned r2
C12_Witness ==
    /\ pc["t1"] = "retry_returned"
    /\ retry["t1"].calls = <<"r2">>
    /\ retry["t1"].result.value = "r2"

\* C13: for every max_retries passed, when every invocation of the operation
\* fails the operation is invoked exactly max_retries times and the exception
\* of the last invocation is raised; and a call returns normally only after
\* an invocation that succeeded.
C13_Exhaustion ==
    \A t \in Tasks :
        RetryEnded(t) /\ ~retry[t].max_retries.isNone
        => /\ (\A i \in DOMAIN retry[t].calls : retry[t].calls[i] = "error")
                => /\ Len(retry[t].calls) = retry[t].max_retries.n
                   /\ retry[t].result = Raised(retry[t].max_retries.n)
           /\ pc[t] = "retry_returned"
                => /\ retry[t].calls # <<>>
                   /\ retry[t].calls[Len(retry[t].calls)] # "error"

----------------------------------------------------------------------------
(* AuthSessionManager: properties *)

\* the clients made for session_id that are not closed
Live(session_id) ==
    {i \in DOMAIN clients : clients[i].session_id = session_id /\ ~clients[i].closed}

\* C14: a get_or_create_session returns the client that the get_or_create_session
\* before it returned for the same id when the id was not closed in between;
\* the first call for an id and the first call after the id was closed return
\* a client made by that call, open and different from every client made before.
C14_SessionIdentity ==
    [][lastCall'.op = "get_or_create_session"
        => IF lastCall'.session_id \in DOMAIN issued
           THEN lastCall'.result = issued[lastCall'.session_id]
           ELSE /\ lastCall'.result \notin DOMAIN clients
                /\ lastCall'.result \in DOMAIN clients'
                /\ ~clients'[lastCall'.result].closed]_vars

\* s1 was opened (client 1) and closed, and the call after the close returned
\* client 2
C14_Witness ==
    /\ lastCall.op = "get_or_create_session" /\ lastCall.session_id = "s1"
    /\ lastCall.result = 2
    /\ clients[1].session_id = "s1" /\ clients[1].closed

\* C15: at every moment of every interleaving every session_id has at most
\* one client that the manager made for it and that is not closed; and a
\* get_or_create_session that was under way together with another task's call
\* for the same new id returns the client the other call returned.
C15_OneLiveClient ==
    /\ [](\A session_id \in SessionIds : Cardinality(Live(session_id)) <= 1)
    /\ [][(/\ lastCall'.op = "get_or_create_session"
           /\ lastCall'.peer
           /\ lastCall'.session_id \in DOMAIN issued)
          => lastCall'.result = issued[lastCall'.session_id]]_vars

\* two calls for the new id s1 were under way together; the second to run
\* got client 1, which the first had made, and no other client exists
C15_Witness ==
    /\ lastCall.op = "get_or_create_session" /\ lastCall.peer
    /\ lastCall.session_id = "s1" /\ lastCall.result = 1
    /\ Len(clients) = 1 /\ ~clients[1].closed

\* C16: a close_session for an id that is not in the registry changes neither
\* the registry nor the saved cookies nor any client and reports success; and
\* every close_session that ends leaves its id out of the registry, so that a
\* second close_session for the id finds the registry as the first left it.
C16_CloseIdempotent ==
    [][lastCall'.op = "close_session"
        => /\ lastCall'.result = "success"
           /\ lastCall'.session_id \notin DOMAIN _sessions'
           /\ lastCall'.session_id \notin DOMAIN _sessions
                => UNCHANGED <<_sessions, _cookies, clients, _lock>>]_vars

\* close_session ran for s1, which a close_session before it had taken out
\* of the registry: client 1 is closed, nothing is open
C16_Witness ==
    /\ lastCall.op = "close_session" /\ lastCall.session_id = "s1"
    /\ lastCall.result = "success"
    /\ lastCall.task = "t2"
    /\ Len(clients) = 1 /\ clients[1].session_id = "s1" /\ clients[1].closed
    /\ \A t \in Tasks : auth[t].stage = "done"
    /\ _sessions = <<>>

\* C17: the client returned by a get_or_create_session that is called after
\* a close_session of the same id, and is the first to run after it, carries
\* none of the cookies that were saved for the id when it was closed.
C17_CookiesCleared ==
    [][(/\ lastCall'.op = "get_or_create_session"
        /\ lastCall'.afterClose
        /\ lastCall'.session_id \in DOMAIN closedWith)
       => clients'[lastCall'.result].jar \cap closedWith[lastCall'.session_id] = {}]_vars

----------------------------------------------------------------------------
(* scrape_webpage: properties *)

\* the step is one of the steps the call has taken
Took(t, step) == \E i \in DOMAIN trace[t] : trace[t][i] = step

\* how often the call has taken the step
Count(t, step) == Len(SelectSeq(trace[t], LAMBDA e : e = step))

\* the place of a step in the order of the function
Phase(step) ==
    CASE step = "cache.get" -> 1
      [] step \in {"circuit open", "circuit closed"} -> 2
      [] step \in {"denied", "admitted"} -> 3
      [] step \in {"func", "backoff"} -> 4
      [] step \in {"record_success", "TypeError"} -> 5
      [] step \in {"cache.set", "return", "ParseError"} -> 6
      [] step \in {"record_failure", "raise"} -> 7

\* the last invocation of make_request returned a response
HttpSucceeded(t) ==
    /\ retry[t].calls # <<>>
    /\ retry[t].calls[Len(retry[t].calls)] # "error"
    /\ retry[t].result = Returned(retry[t].calls[Len(retry[t].calls)])

\* C18: the steps of a call come in the order cache lookup, circuit-breaker
\* check, rate-limiter admission, HTTP invocations, record_success, cache
\* insertion; no step runs without the steps before it (the lookup only with
\* use_cache); record_success and the insertion follow an HTTP invocation that
\* succeeded; and a lookup that found a value ends the call with that value
\* and no further step.
C18_StepOrder ==
    \A t \in Tasks :
        /\ \A i, j \in DOMAIN trace[t] : i < j => Phase(trace[t][i]) <= Phase(trace[t][j])
        /\ Count(t, "cache.get") <= 1
        /\ Count(t, "circuit open") + Count(t, "circuit closed") <= 1
        /\ Count(t, "admitted") <= 1
        /\ Took(t, "cache.get") <=> scrape[t].use_cache /\ pc[t] # "cache_lookup"
        /\ Took(t, "denied") \/ Took(t, "admitted") => Took(t, "circuit closed")
        /\ Took(t, "func") => Took(t, "admitted")
        /\ Took(t, "admitted") => trace[t][Len(trace[t])] # "denied"
        /\ Took(t, "record_success") \/ Took(t, "cache.set")
            => Took(t, "func") /\ HttpSucceeded(t)
        /\ Took(t, "cache.set") => Took(t, "record_success")
        /\ scrape[t].cached # "None"
            => /\ trace[t] = <<"cache.get">>
               /\ pc[t] = "done"
               /\ scrape[t].outcome = Result(scrape[t].cached)

\* a call went through every step: lookup, gate, admission, a request that
\* failed, the backoff, a request that succeeded, record_success, insertion
C18_Witness ==
    /\ pc["t1"] = "done"
    /\ trace["t1"] = <<"cache.get", "circuit closed", "admitted", "func", "backoff",
                       "func", "record_success", "cache.set">>
    /\ scrape["t1"].outcome.kind = "result"

\* every invocation of make_request failed and the last exception left
\* retry_with_backoff
Exhausted(t) == retry[t].result.kind = "raised"

\* the call recorded one failure for its domain
RecordedOnce(t) ==
    /\ Count(t, "record_failure") = 1
    /\ lastCall.op = "record_failure"
        => /\ lastCall.key = Netloc(scrape[t].url)
           /\ failures[lastCall.key] = lastCall.before + 1

\* C19 as stated: a call whose every attempt failed has called record_failure
\* once, raising the failure count of the domain by one, and ends with the
\* exception raised to its caller.
C19_FailureRaised ==
    \A t \in Tasks :
        pc[t] = "done" /\ Exhausted(t)
        => RecordedOnce(t) /\ scrape[t].outcome.kind = "raised"

\* C19 amended: a call whose every attempt failed has called record_failure
\* once, raising the failure count of the domain by one, and returns to its
\* caller an error result that names the exception; nothing is raised.
C19_FailureReturned ==
    \A t \in Tasks :
        pc[t] = "done" /\ Exhausted(t)
        => RecordedOnce(t) /\ scrape[t].outcome = ErrorResult("ClientError")

\* two attempts failed, the second exhausting the retries: one failure is
\* recorded for the domain
C19_Witness ==
    /\ pc["t1"] = "done" /\ Exhausted("t1")
    /\ retry["t1"].calls = <<"error", "error">>
    /\ lastCall.op = "record_failure" /\ lastCall.before = 0
    /\ failures["example.com"] = 1

\* the call found the circuit open at the gate
Rejected(t) == Took(t, "circuit open")

\* C20: a call that finds the circuit open at the gate takes no step but the
\* raise of CircuitBreakerError: no rate-limiter check or sleep, no HTTP
\* invocation or backoff, no record_failure or record_success; and from the
\* gate to the raise the failure count and the last failure time of the
\* domain stay as they were.
C20_OpenCircuitRejects ==
    /\ [](\A t \in Tasks :
            Rejected(t)
            => /\ \A i \in DOMAIN trace[t] :
                    trace[t][i] \in {"cache.get", "circuit open", "raise"}
               /\ pc[t] \in {"except", "done"}
               /\ pc[t] = "done" => scrape[t].outcome = Raises("CircuitBreakerError"))
    /\ [][\A t \in Tasks :
            Rejected(t)' /\ pc[t] # "done"
            => UNCHANGED <<failures, last_failure_time, requests>>]_vars

\* five calls failed and opened the circuit; the sixth was rejected at the
\* gate and the count is still five
C20_Witness ==
    /\ pc["t1"] = "done"
    /\ scrape["t1"].outcome = Raises("CircuitBreakerError")
    /\ failures["example.com"] = DefaultFailureThreshold
    /\ trace["t1"] = <<"circuit open", "raise">>

----------------------------------------------------------------------------
(* Locks: properties *)

\* the task is suspended in an await that is not the acquisition of a lock:
\* session.close(), an asyncio.sleep, or the request of make_request
Suspended(t) ==
    \/ auth[t].stage = "closing"
    \/ pc[t] \in {"retry_await", "retry_sleep", "rate_sleep", "human_delay"}

\* C21: a task suspended in session.close(), a sleep or network I/O holds no
\* lock (the locks of RateLimiter, CircuitBreaker, CacheManager and
\* SessionManager are released before any await; the lock of
\* AuthSessionManager is _lock).
C21_NoLockAcrossAwait == \A t \in Tasks : Suspended(t) => _lock # t

----------------------------------------------------------------------------
(* RateLimiter: the periodic sweep *)

\* the number of keys the limiter tracks
Tracked(reqs) == Cardinality(DOMAIN reqs)

\* C22: a check_rate_limit call for a new key that runs the sweep cleans the
\* entries recorded before it: none of the keys tracked before the call is
\* tracked after it, so that fewer keys remain than before whenever more than
\* one was tracked.
C22_SweepShrinks ==
    [][(/\ lastCall'.op = "check_rate_limit"
        /\ now - last_cleanup > CleanupInterval
        /\ lastCall'.key \notin DOMAIN requests)
       => /\ DOMAIN requests \cap DOMAIN requests' = {}
          /\ Tracked(requests) > 1 => Tracked(requests') < Tracked(requests)]_vars

----------------------------------------------------------------------------
(* RateLimiter.wait_if_needed: properties *)

Waiting(t) == pc[t] \in {"wait_poll", "wait_sleep"}

\* another caller has just been admitted for the key while t waits
OtherAdmitted(t, k) == Waiting(t) /\ IsCheck(lastCall, k) /\ lastCall.result

\* C24: with max_requests >= 1 and time advancing, wait_if_needed(key)
\* returns unless another caller is admitted for the key after the call
\* started; a poll that is denied records no timestamp, the poll that is
\* admitted records exactly one, and on return the caller has been admitted
\* once, by its last poll.
C24_WaitReturns ==
    /\ max_requests >= 1
        => (Waiting("t1") ~> (pc["t1"] = "wait_returned" \/ OtherAdmitted("t1", WaitKey)))
    /\ [][pc["t1"] = "wait_poll" /\ pc'["t1"] # "wait_poll"
            => LET kept == InWindow(requests, WaitKey, now)
               IN  requests'[WaitKey] = IF pc'["t1"] = "wait_returned"
                                        THEN Append(kept, now) ELSE kept]_vars
    /\ [](pc["t1"] = "wait_returned"
            => /\ Count("t1", "admitted") = 1
               /\ trace["t1"][Len(trace["t1"])] = "admitted")

\* the call was denied twice, slept and was admitted by its third poll
C24_Witness ==
    /\ pc["t1"] = "wait_returned"
    /\ Count("t1", "denied") = 2
    /\ Len(requests[WaitKey]) = max_requests

----------------------------------------------------------------------------
(* retry_with_backoff: the sleeps *)

\* the failed invocations so far
Failed(t) == Len(SelectSeq(retry[t].calls, LAMBDA o : o = "error"))

\* C25: the sleep after failed attempt k (from 0) lasts between b and 1.1 * b
\* with b = backoff_factor^k, or max_backoff where that is smaller; every
\* failed attempt but the final one is followed by exactly one sleep, the
\* base delays do not decrease with k and none exceeds max_backoff.
C25_BackoffSleeps ==
    \A t \in Tasks :
        LET f      == retry[t]
            power(k) == Pow(f.backoff_factor, k)
            b(k)   == IF power(k) < f.max_backoff THEN power(k) ELSE f.max_backoff
            ms(i)  == 1000 * f.sleeps[i].backoff + f.sleeps[i].jitter
        IN  /\ Len(f.sleeps) = Failed(t) - (IF f.result.kind = "raised" THEN 1 ELSE 0)
            /\ \A i \in DOMAIN f.sleeps :
                    /\ f.calls[i] = "error"
                    /\ 1000 * b(i - 1) <= ms(i) /\ ms(i) <= 1100 * b(i - 1)
                    /\ f.sleeps[i].backoff <= f.max_backoff
                    /\ i > 1 => f.sleeps[i - 1].backoff <= f.sleeps[i].backoff

\* the default factor under a cap of one second: the second sleep is capped
C25_Witness ==
    /\ pc["t1"] = "retry_sleep"
    /\ retry["t1"].backoff_factor = BackoffFactor /\ retry["t1"].max_backoff < BackoffFactor
    /\ Len(retry["t1"].sleeps) = 2
    /\ retry["t1"].sleeps[2].jitter > 0

----------------------------------------------------------------------------
(* CacheManager: keys *)

\* the key material of the call is not truncated
Untruncated(call) == Len(KeyData(call.url, call.options)) <= KeyLimit

\* C26: when the key material of two distinct (url, options) pairs is at most
\* 100 characters long, a get for one pair does not return the value that a
\* set stored for the other: a get that follows a set for another pair, the
\* cache holding nothing but the entry of that set, returns None.
C26_NoCollision ==
    [][(/\ lastCall.op = "set" /\ lastCall'.op = "get"
        /\ Len(cache) = 1
        /\ <<lastCall'.url, lastCall'.options>> # <<lastCall.url, lastCall.options>>
        /\ Untruncated(lastCall) /\ Untruncated(lastCall'))
       => lastCall'.result = "None"]_vars

----------------------------------------------------------------------------
(* CacheManager: eviction *)

Entries(c) == {c[i] : i \in DOMAIN c}

\* the entry a set has just written
Written(call) ==
    [key |-> _get_cache_key(call.url, call.options), value |-> call.value,
     timestamp |-> now]

\* a set that ran the cleanup removed every stale entry; when more than 800
\* live entries remained it kept 800 of them, the written one included, each
\* evicted entry older than each kept one, or at most as old unless `strict`
Eviction(strict) ==
    lastCall'.op = "set" /\ lastCall'.cleaned
        => LET w      == Written(lastCall')
               stored == {e \in Entries(cache) : e.key # w.key} \cup {w}
               live   == {e \in stored : now - e.timestamp < ttl}
               kept   == Entries(cache')
           IN  IF Cardinality(live) > CacheTrimTo
               THEN /\ kept \subseteq live
                    /\ Cardinality(kept) = CacheTrimTo
                    /\ w \in kept
                    /\ \A e \in live \ kept : \A k \in kept :
                            IF strict THEN e.timestamp < k.timestamp
                            ELSE e.timestamp <= k.timestamp
               ELSE kept = live

\* C27 as stated: a set that leaves more than 1000 entries removes all stale
\* entries first; if more than 800 remain, exactly the 800 most recently
\* written are kept, every evicted entry is older than every kept one, and
\* the entry written by that set is kept.
C27_Eviction == [][Eviction(TRUE)]_vars

\* C27 amended: the same, except that an evicted entry may be as old as a kept
\* one: no evicted entry is newer than any kept entry.
C27_EvictionNotNewer == [][Eviction(FALSE)]_vars

\* a cleanup at second 2 under a ttl of 2 removed the entries of second 0 and
\* then trimmed those of second 1 to 800
C27_Witness ==
    /\ lastCall.op = "set" /\ lastCall.cleaned
    /\ ttl = MaxTtl /\ now = MaxTtl
    /\ Len(cache) = CacheTrimTo
    /\ \A i \in DOMAIN cache : cache[i].timestamp >= 1

----------------------------------------------------------------------------
(* Concurrent scrape_webpage calls: properties *)

\* the failure count has reached the threshold and the recovery time has not
\* passed since the last failure
CircuitOpen(endpoint) ==
    /\ FailureCount(failures, endpoint) >= failure_threshold
    /\ ~(/\ endpoint \in DOMAIN last_failure_time
         /\ (now - last_failure_time[endpoint]) % SecondsPerDay > recovery_timeout)

\* C28: across concurrent scrape_webpage tasks for one domain, no HTTP
\* attempt, first or retry, starts while the circuit of the domain is open.
C28_NoAttemptWhileOpen ==
    [][\A t \in Tasks :
        pc[t] = "retry_call" /\ pc'[t] = "retry_await"
            => ~CircuitOpen(Netloc(scrape[t].url))]_vars

----------------------------------------------------------------------------
(* scrape_webpage: what a call records *)

\* the call found the circuit closed at the gate
PassedGate(t) == Took(t, "circuit closed")

\* C29: a call that passed the circuit-breaker gate and has finished recorded
\* exactly one outcome for its domain, record_success or record_failure,
\* never both and never neither.
C29_OneOutcome ==
    \A t \in Tasks :
        pc[t] = "done" /\ PassedGate(t)
        => Count(t, "record_success") + Count(t, "record_failure") = 1

----------------------------------------------------------------------------
(* scrape_webpage: admissions and attempts *)

\* the task is inside retry_with_backoff
Retrying(t) == pc[t] \in {"retry_call", "retry_await", "retry_sleep"}

\* C30: a call that reaches the network has consumed exactly one admission of
\* the rate limiter, however many attempts it makes: no step of the retry
\* loop touches the limiter, and the attempts of a call number at most its
\* one admission plus the attempts that were retried, so that they stay
\* within the admissions (and so within max_requests per period) only when
\* no attempt is retried.
C30_OneAdmissionPerCall ==
    /\ [](\A t \in Tasks :
            /\ Count(t, "admitted") <= 1
            /\ Took(t, "func") => Count(t, "admitted") = 1
            /\ Count(t, "func") <= Count(t, "admitted") + Count(t, "backoff")
            /\ Count(t, "backoff") = 0 => Count(t, "func") <= max_requests)
    /\ [][\A t \in Tasks :
            Retrying(t) /\ pc'[t] # pc[t] => requests' = requests]_vars

\* under a limit of one request per 60 s a call was admitted once and has
\* sent two attempts within two seconds
C30_Witness ==
    /\ max_requests = 1 /\ now < period
    /\ Count("t1", "func") = 2 /\ Count("t1", "backoff") = 1
    /\ Len(requests["example.com"]) = 1
    /\ \A i \in DOMAIN requests["example.com"] : now - requests["example.com"][i] < period

====
